---- MODULE Spec2Model ----
(***************************************************************************)
(* CertSmith bundle codec (utils/cryptoUtils.ts): extractFromPFX,          *)
(* extractFromP7B, verifyCertKeyMatch, createPFX, createP7B.               *)
(*                                                                         *)
(* Values.  Every value is a record; a field name has one type everywhere. *)
(*   RSA key            [n, e]                                             *)
(*   certificate        [subject, publicKey]                               *)
(*   PEM text           [label, ...]: the label of the armor and what the  *)
(*                      base64 body decodes to; label "none" is text with  *)
(*                      no PEM block in it, label "null" is null           *)
(*   CA bundle text     [label |-> "bundle", toks |-> sequence of tokens]  *)
(*   file / ArrayBuffer [enc, asn1]: how the bytes are encoded (DER, PEM   *)
(*                      armor, junk) and the ASN.1 object they hold        *)
(*   error message      a sequence of words, so that String.includes is a  *)
(*                      search for a word                                  *)
(*   thrown / returned  [ok |-> FALSE, message] / [ok |-> TRUE, ...]       *)
(* The node-forge calls are modelled at the call sites by what the library *)
(* does there (parse, serialise, consume a buffer, throw with a message).  *)
(***************************************************************************)
EXTENDS Integers, Sequences, FiniteSets, TLC

\* ------------------------------------------------------------------ bounds
\* longest CA bundle text, in tokens
MaxCaLen == 4
\* most safe bags in an uploaded PKCS#12 container
MaxBags == 3
\* most certificates in an uploaded PKCS#7 container
MaxCerts == 3

\* ---------------------------------------------------------------- universe
Null == [label |-> "null"]

KA == [n |-> "nA", e |-> "e65537"]
KB == [n |-> "nB", e |-> "e65537"]
\* same modulus as KA, other public exponent
KA3 == [n |-> "nA", e |-> "e3"]
RsaKeys == {KA, KB, KA3}

LeafA == [subject |-> "leafA", publicKey |-> KA]
LeafB == [subject |-> "leafB", publicKey |-> KB]
CA1 == [subject |-> "ca1", publicKey |-> KB]
CA2 == [subject |-> "ca2", publicKey |-> KA3]

Passwords == {"p1", "p2"}
\* an optional string argument: undefined, or a string (possibly empty)
NoPw == [given |-> FALSE, s |-> ""]
Pw(s) == [given |-> TRUE, s |-> s]
\* JavaScript truthiness of an optional string
Truthy(p) == p.given /\ p.s # ""

\* outcomes of forge.random (salts, IVs)
Salts == {"s1", "s2"}

CertText(c, eol) == [label |-> "CERTIFICATE", x509 |-> c, eol |-> eol]
KeyText(label, k) == [label |-> label, rsa |-> k]
EncKeyText(k, pw, salt) ==
  [label |-> "ENCRYPTED PRIVATE KEY", rsa |-> k, pw |-> pw, salt |-> salt]
Garbage == [label |-> "none"]

\* --------------------------------------------------------------- messages
Includes(message, word) == \E i \in 1..Len(message) : message[i] = word

MsgInvalidPem == <<"Invalid PEM formatted message.">>
MsgNotCertHeader ==
  <<"Could not convert certificate from PEM; PEM header type is not CERTIFICATE.">>
MsgNotKeyHeader ==
  <<"Could not convert private key from PEM; PEM header type is not PRIVATE KEY.">>
MsgBadDer == <<"Too few bytes to read ASN.1 value.">>
MsgNotPfx == <<"Cannot read PKCS#12 PFX. ASN.1 object is not an PKCS#12 PFX.">>
MsgMac == <<"PKCS#12 MAC could not be verified. Invalid ", "password", "?">>
MsgSafeContents == <<"Failed to decrypt PKCS#12 SafeContents.">>
MsgShrouded ==
  <<"Unable to decrypt PKCS#8 ShroudedKeyBag, wrong ", "password", "?">>
MsgNotP7 == <<"Cannot read PKCS#7 message. ASN.1 object is not an PKCS#7 ContentInfo.">>

MsgInvalidPassword == <<"Invalid ", "password", " or corrupted file.">>
MsgParsePfx == <<"Failed to parse PFX: ">>
MsgParseP7B ==
  <<"Failed to parse P7B. Ensure it is a valid PKCS#7 file (DER or PEM).">>
MsgNoCerts == <<"No certificates found in P7B file.">>
MsgKeyEncrypted ==
  <<"Private key is encrypted. Please provide a ", "password", ".">>
MsgNoKey == <<"Could not parse private key.">>
MsgVerify == <<"Failed to verify match.">>
MsgGeneratePfx ==
  <<"Failed to generate PFX. Ensure your Private Key and Certificate match and are valid PEM format.">>
MsgCreateP7B == <<"Failed to create P7B: ">>

Throw(message) == [ok |-> FALSE, message |-> message]

\* ------------------------------------------------------- forge: PEM, keys
\* forge.pki.certificateFromPem
certificateFromPem(pem) ==
  IF pem.label = "CERTIFICATE" THEN [ok |-> TRUE, cert |-> pem.x509]
  ELSE IF pem.label \in {"none", "null"} THEN Throw(MsgInvalidPem)
  ELSE Throw(MsgNotCertHeader)

\* forge.pki.certificateToPem: one canonical armor whatever the input text was
certificateToPem(c) == CertText(c, "crlf")

\* forge.pki.privateKeyFromPem: unencrypted PKCS#1 or PKCS#8 only
privateKeyFromPem(pem) ==
  IF pem.label \in {"RSA PRIVATE KEY", "PRIVATE KEY"}
    THEN [ok |-> TRUE, rsa |-> pem.rsa]
  ELSE IF pem.label \in {"none", "null"} THEN Throw(MsgInvalidPem)
  ELSE Throw(MsgNotKeyHeader)

\* forge.pki.decryptRsaPrivateKey: null (has |-> FALSE) on a wrong password
decryptRsaPrivateKey(pem, password) ==
  IF pem.label = "ENCRYPTED PRIVATE KEY"
    THEN [ok |-> TRUE, has |-> pem.pw = password, rsa |-> pem.rsa]
  ELSE IF pem.label \in {"RSA PRIVATE KEY", "PRIVATE KEY"}
    THEN [ok |-> TRUE, has |-> TRUE, rsa |-> pem.rsa]
  ELSE IF pem.label \in {"none", "null"} THEN Throw(MsgInvalidPem)
  ELSE Throw(MsgNotKeyHeader)

\* forge.pki.privateKeyToPem: always the PKCS#1 armor
privateKeyToPem(k) == KeyText("RSA PRIVATE KEY", k)

\* forge.pki.encryptPrivateKey + encryptedPrivateKeyToPem (random salt)
encryptedPrivateKeyToPem(k, password, salt) == EncKeyText(k, password, salt)

\* forge.pki.setRsaPublicKey + publicKeyToPem
publicKeyToPem(n, e) == [label |-> "PUBLIC KEY", n |-> n, e |-> e]

\* ------------------------------------------------ forge: buffers and ASN.1
PfxAsn1(mac, password, salt, friendlyName, safeContents) ==
  [type |-> "PFX", mac |-> mac, password |-> password, salt |-> salt,
   friendlyName |-> friendlyName, safeContents |-> safeContents]
P7Asn1(certs) == [type |-> "PKCS7", certificates |-> certs]
NoAsn1 == [type |-> "none"]

DerFile(asn1) == [enc |-> "DER", asn1 |-> asn1]
PemFile(asn1) == [enc |-> "PEM", asn1 |-> asn1]
JunkFile == [enc |-> "junk", asn1 |-> NoAsn1]

\* forge.util.createBuffer: the bytes and how far they have been read
createBuffer(file) == [file |-> file, consumed |-> "none"]

\* forge.asn1.fromDer reads from the buffer it is given and advances its read
\* pointer.  DER bytes are read to the end.  On PEM text the leading "--" is
\* taken as a constructed tag with length 45, the next "--" as a nested value
\* longer than what remains, and the parse throws with those bytes consumed;
\* on any other bytes the tag and length bytes are consumed before a throw.
fromDer(buffer) ==
  IF buffer.file.enc = "DER" /\ buffer.consumed = "none"
    THEN [ok |-> TRUE, asn1 |-> buffer.file.asn1,
          buffer |-> [buffer EXCEPT !.consumed = "all"]]
    ELSE [ok |-> FALSE, message |-> MsgBadDer,
          buffer |-> [buffer EXCEPT !.consumed =
                        IF @ = "none" THEN "some" ELSE @]]

\* ByteStringBuffer.toString: the bytes from the read pointer on
toString(buffer) == [file |-> buffer.file, from |-> buffer.consumed]

\* forge.pkcs7.messageFromAsn1
messageFromAsn1(asn1) ==
  IF asn1.type = "PKCS7" THEN [ok |-> TRUE, p7 |-> asn1] ELSE Throw(MsgNotP7)

\* forge.pkcs7.messageFromPem: the armor regex needs the whole
\* "-----BEGIN PKCS7-----" line, so text that lost its first bytes has no match
messageFromPem(str) ==
  IF str.file.enc = "PEM" /\ str.from = "none"
    THEN messageFromAsn1(str.file.asn1)
    ELSE Throw(MsgInvalidPem)

\* forge.pkcs7.messageToPem
messageToPem(p7) == PemFile(p7)

\* ------------------------------------------------------- forge: PKCS#12
\* a safe bag; decoded says whether forge could decode its key or certificate
\* (safeBag.key, safeBag.cert are null otherwise)
CertBag(c) == [type |-> "certBag", x509 |-> c, decoded |-> TRUE]
KeyBag(k) == [type |-> "keyBag", rsa |-> k, decoded |-> TRUE]
ShroudedKeyBag(k) == [type |-> "pkcs8ShroudedKeyBag", rsa |-> k, decoded |-> TRUE]
\* a key bag whose key forge cannot decode (not an RSA key): safeBag.key is null
UndecodedKeyBag(type) == [type |-> type, decoded |-> FALSE]
SafeContents(encrypted, bags) == [encrypted |-> encrypted, safeBags |-> bags]

NeedsPassword(sc) ==
  sc.encrypted \/ \E i \in 1..Len(sc.safeBags) :
                       sc.safeBags[i].type = "pkcs8ShroudedKeyBag"

\* forge.pkcs12.pkcs12FromAsn1(asn1, false, password): the MAC is verified
\* first; then the safe contents are decoded in order, an encrypted
\* SafeContents before the shrouded key bags inside it
pkcs12FromAsn1(asn1, password) ==
  IF asn1.type # "PFX" THEN Throw(MsgNotPfx)
  ELSE IF asn1.mac /\ asn1.password # password THEN Throw(MsgMac)
  ELSE LET scs == asn1.safeContents
           bad == {i \in 1..Len(scs) : NeedsPassword(scs[i])}
       IN IF asn1.password # password /\ bad # {}
            THEN LET i == CHOOSE i \in bad : \A j \in bad : i <= j
                 IN IF scs[i].encrypted THEN Throw(MsgSafeContents)
                                        ELSE Throw(MsgShrouded)
            ELSE [ok |-> TRUE, p12 |-> [safeContents |-> scs]]

MapCertBags(chain) == [i \in 1..Len(chain) |-> CertBag(chain[i])]

\* forge.pkcs12.toPkcs12Asn1(key, chain, password, options): one unencrypted
\* SafeContents with a cert bag per chain entry, then one with the shrouded
\* key; MAC keyed by the password with a random salt
toPkcs12Asn1(key, chain, password, friendlyName, salt) ==
  PfxAsn1(TRUE, password, salt, friendlyName,
          << SafeContents(FALSE, MapCertBags(chain)),
             SafeContents(FALSE, <<ShroudedKeyBag(key)>>) >>)

\* ------------------------------------------------------ CA bundle text
\* A CA bundle text is a sequence of tokens:
\*   "END"         the marker -----END CERTIFICATE-----
\*   "ws"          white space (blanks, newlines)
\*   "ca1", "ca2"  -----BEGIN CERTIFICATE----- and the base64 body of CA1, CA2
\*   "bad"         -----BEGIN CERTIFICATE----- and a truncated or corrupt body
BundleTokens == {"END", "ws", "ca1", "ca2", "bad"}
Bundle(toks) == [label |-> "bundle", toks |-> toks]
TokenCert(t) == IF t = "ca1" THEN CA1 ELSE CA2

\* String.prototype.split('-----END CERTIFICATE-----')
RECURSIVE Split(_)
Split(toks) ==
  LET ends == {i \in 1..Len(toks) : toks[i] = "END"}
  IN IF ends = {} THEN <<toks>>
     ELSE LET i == CHOOSE i \in ends : \A j \in ends : i <= j
          IN <<SubSeq(toks, 1, i - 1)>> \o Split(SubSeq(toks, i + 1, Len(toks)))

\* String.prototype.trim
RECURSIVE Trim(_)
Trim(block) ==
  IF block = <<>> THEN block
  ELSE IF Head(block) = "ws" THEN Trim(Tail(block))
  ELSE IF block[Len(block)] = "ws" THEN Trim(SubSeq(block, 1, Len(block) - 1))
  ELSE block

\* forge.pki.certificateFromPem(trimmed + '\n-----END CERTIFICATE-----') on a
\* trimmed, non-empty block: the armor regex matches from the last BEGIN line
\* of the block to the appended marker, and the body must be a certificate
BlockCert(trimmed) ==
  LET t == trimmed[Len(trimmed)]
  IN IF t \in {"ca1", "ca2"} THEN [ok |-> TRUE, cert |-> TokenCert(t)]
                              ELSE Throw(MsgBadDer)

\* the CA certificates are collected last block first
RECURSIVE CaBlocks_Reversed(_)
CaBlocks_Reversed(blocks) ==
  IF blocks = <<>> THEN [ok |-> TRUE, certs |-> <<>>]
  ELSE LET trimmed == Trim(Head(blocks))
           rest == CaBlocks_Reversed(Tail(blocks))
       IN IF trimmed = <<>> THEN rest
          ELSE LET r == BlockCert(trimmed)
               IN IF r.ok THEN [ok |-> TRUE, certs |-> rest.certs \o <<r.cert>>]
                          ELSE rest

\* a block that fails to parse aborts the loop
RECURSIVE CaBlocks_Strict(_)
CaBlocks_Strict(blocks) ==
  IF blocks = <<>> THEN [ok |-> TRUE, certs |-> <<>>]
  ELSE LET trimmed == Trim(Head(blocks))
           rest == CaBlocks_Strict(Tail(blocks))
       IN IF trimmed = <<>> THEN rest
          ELSE LET r == BlockCert(trimmed)
               IN IF ~r.ok THEN r
                  ELSE IF ~rest.ok THEN rest
                  ELSE [ok |-> TRUE, certs |-> <<r.cert>> \o rest.certs]

\* createPFX, the loop over the CA blocks: the certificates of the blocks
\* that parse, in order; empty blocks and blocks that throw are passed over
RECURSIVE CaBlocks(_)
CaBlocks(blocks) ==
  IF blocks = <<>> THEN [ok |-> TRUE, certs |-> <<>>]
  ELSE LET trimmed == Trim(Head(blocks))
           rest == CaBlocks(Tail(blocks))
       IN IF trimmed = <<>> THEN rest
          ELSE LET r == BlockCert(trimmed)
               IN IF r.ok THEN [ok |-> TRUE, certs |-> <<r.cert>> \o rest.certs]
                          ELSE rest

\* the CA certificates are put in front of the leaf
PfxChain_CaFirst(cert, caPem) ==
  IF caPem.label = "bundle" /\ caPem.toks # <<>>
    THEN LET ca == CaBlocks(Split(caPem.toks))
         IN IF ca.ok THEN [ok |-> TRUE, certs |-> ca.certs \o <<cert>>] ELSE ca
    ELSE [ok |-> TRUE, certs |-> <<cert>>]

\* createPFX: chain = [cert], then the CA certificates if (caPem)
PfxChain(cert, caPem) ==
  IF caPem.label = "bundle" /\ caPem.toks # <<>>
    THEN LET ca == CaBlocks(Split(caPem.toks))
         IN IF ca.ok THEN [ok |-> TRUE, certs |-> <<cert>> \o ca.certs] ELSE ca
    ELSE [ok |-> TRUE, certs |-> <<cert>>]

\* createP7B, the loop over the CA blocks (same policy, its own loop)
RECURSIVE P7bCaBlocks(_)
P7bCaBlocks(blocks) ==
  IF blocks = <<>> THEN <<>>
  ELSE LET trimmed == Trim(Head(blocks))
           rest == P7bCaBlocks(Tail(blocks))
       IN IF trimmed = <<>> THEN rest
          ELSE LET r == BlockCert(trimmed)
               IN IF r.ok THEN <<r.cert>> \o rest ELSE rest

\* ------------------------------------------------------------ createPFX
\* the catch block reports the cause
createPFX_Leaky(keyPem, certPem, caPem, password, friendlyName, salt) ==
  LET k == privateKeyFromPem(keyPem)
      c == certificateFromPem(certPem)
      chain == PfxChain(c.cert, caPem)
      name == IF Truthy(friendlyName) THEN friendlyName.s ELSE "CertSmith Export"
  IN IF ~k.ok THEN Throw(MsgGeneratePfx \o k.message)
     ELSE IF ~c.ok THEN Throw(MsgGeneratePfx \o c.message)
     ELSE IF ~chain.ok THEN Throw(MsgGeneratePfx \o chain.message)
     ELSE [ok |-> TRUE,
           file |-> DerFile(toPkcs12Asn1(k.rsa, chain.certs, password, name, salt))]

createPFX(keyPem, certPem, caPem, password, friendlyName, salt) ==
  LET k == privateKeyFromPem(keyPem)
      c == certificateFromPem(certPem)
      chain == PfxChain(c.cert, caPem)
      name == IF Truthy(friendlyName) THEN friendlyName.s ELSE "CertSmith Export"
      tried ==
        IF ~k.ok THEN k
        ELSE IF ~c.ok THEN c
        ELSE IF ~chain.ok THEN chain
        ELSE [ok |-> TRUE,
              file |-> DerFile(toPkcs12Asn1(k.rsa, chain.certs, password, name, salt))]
  IN IF tried.ok THEN tried ELSE Throw(MsgGeneratePfx)

\* ------------------------------------------------------------ createP7B
createP7B(certPem, caPem) ==
  LET c == certificateFromPem(certPem)
      cas == IF caPem.label = "bundle" /\ caPem.toks # <<>>
               THEN P7bCaBlocks(Split(caPem.toks)) ELSE <<>>
      tried == IF ~c.ok THEN c
               ELSE [ok |-> TRUE, file |-> messageToPem(P7Asn1(<<c.cert>> \o cas))]
  IN IF tried.ok THEN tried ELSE Throw(MsgCreateP7B \o tried.message)

\* ------------------------------------------------------- extractFromPFX
Join(pems) == [label |-> "joined", pems |-> pems]
Parsed(key, cert, ca) == [ok |-> TRUE, key |-> key, cert |-> cert, ca |-> ca]
NoneFound == [key |-> Null, cert |-> Null, caPems |-> <<>>]

\* the key is written as plain PEM whether or not outputKeyPassword is supplied
KeyBagPem_NeverEncrypt(rsa, outputKeyPassword, salt) == privateKeyToPem(rsa)

\* the key is encrypted whether or not outputKeyPassword is supplied
KeyBagPem_AlwaysEncrypt(rsa, outputKeyPassword, salt) ==
  encryptedPrivateKeyToPem(rsa, outputKeyPassword.s, salt)

\* the key is encrypted whenever outputKeyPassword is a string, the empty
\* one included
KeyBagPem_EncryptsWhenGiven(rsa, outputKeyPassword, salt) ==
  IF outputKeyPassword.given
    THEN encryptedPrivateKeyToPem(rsa, outputKeyPassword.s, salt)
    ELSE privateKeyToPem(rsa)

\* the PEM a key bag yields
KeyBagPem(rsa, outputKeyPassword, salt) ==
  IF Truthy(outputKeyPassword)
    THEN encryptedPrivateKeyToPem(rsa, outputKeyPassword.s, salt)
    ELSE privateKeyToPem(rsa)

\* a later certificate bag goes to the front of the CA chain
BagStep_Prepend(acc, safeBag, outputKeyPassword, salt) ==
  IF safeBag.type \in {"pkcs8ShroudedKeyBag", "keyBag"}
    THEN IF safeBag.decoded
           THEN [acc EXCEPT !.key = KeyBagPem(safeBag.rsa, outputKeyPassword, salt)]
           ELSE acc
  ELSE IF safeBag.type = "certBag"
    THEN IF safeBag.decoded
           THEN LET pem == certificateToPem(safeBag.x509)
                IN IF acc.cert.label = "null"
                     THEN [acc EXCEPT !.cert = pem]
                     ELSE [acc EXCEPT !.caPems = <<pem>> \o @]
           ELSE acc
  ELSE acc

\* the first key found is kept
BagStep_KeepsFirstKey(acc, safeBag, outputKeyPassword, salt) ==
  IF safeBag.type \in {"pkcs8ShroudedKeyBag", "keyBag"}
    THEN IF safeBag.decoded /\ acc.key.label = "null"
           THEN [acc EXCEPT !.key = KeyBagPem(safeBag.rsa, outputKeyPassword, salt)]
           ELSE acc
  ELSE IF safeBag.type = "certBag"
    THEN IF safeBag.decoded
           THEN LET pem == certificateToPem(safeBag.x509)
                IN IF acc.cert.label = "null"
                     THEN [acc EXCEPT !.cert = pem]
                     ELSE [acc EXCEPT !.caPems = Append(@, pem)]
           ELSE acc
  ELSE acc

\* the body of the inner loop, for one safe bag
BagStep(acc, safeBag, outputKeyPassword, salt) ==
  IF safeBag.type \in {"pkcs8ShroudedKeyBag", "keyBag"}
    THEN IF safeBag.decoded
           THEN [acc EXCEPT !.key = KeyBagPem(safeBag.rsa, outputKeyPassword, salt)]
           ELSE acc
  ELSE IF safeBag.type = "certBag"
    THEN IF safeBag.decoded
           THEN LET pem == certificateToPem(safeBag.x509)
                IN IF acc.cert.label = "null"
                     THEN [acc EXCEPT !.cert = pem]
                     ELSE [acc EXCEPT !.caPems = Append(@, pem)]
           ELSE acc
  ELSE acc

\* for (const safeBag of safeContent.safeBags)
RECURSIVE WalkBags(_, _, _, _)
WalkBags(acc, safeBags, outputKeyPassword, salt) ==
  IF safeBags = <<>> THEN acc
  ELSE WalkBags(BagStep(acc, Head(safeBags), outputKeyPassword, salt),
                Tail(safeBags), outputKeyPassword, salt)

\* for (const safeContent of p12.safeContents)
RECURSIVE WalkContents(_, _, _, _)
WalkContents(acc, safeContents, outputKeyPassword, salt) ==
  IF safeContents = <<>> THEN acc
  ELSE WalkContents(
         WalkBags(acc, Head(safeContents).safeBags, outputKeyPassword, salt),
         Tail(safeContents), outputKeyPassword, salt)

\* ca is the joined chain even when the chain is empty
extractFromPFX_JoinAlways(pfxBuffer, password, outputKeyPassword, salt) ==
  LET d == fromDer(createBuffer(pfxBuffer))
      p == IF d.ok THEN pkcs12FromAsn1(d.asn1, password) ELSE Throw(d.message)
      found == WalkContents(NoneFound, p.p12.safeContents, outputKeyPassword, salt)
  IN IF p.ok THEN Parsed(found.key, found.cert, Join(found.caPems))
     ELSE IF Includes(p.message, "password") THEN Throw(MsgInvalidPassword)
     ELSE Throw(MsgParsePfx \o p.message)

\* the catch block rethrows the decode error as it came
extractFromPFX_Unclassified(pfxBuffer, password, outputKeyPassword, salt) ==
  LET d == fromDer(createBuffer(pfxBuffer))
      p == IF d.ok THEN pkcs12FromAsn1(d.asn1, password) ELSE Throw(d.message)
      found == WalkContents(NoneFound, p.p12.safeContents, outputKeyPassword, salt)
  IN IF p.ok
       THEN Parsed(found.key, found.cert,
                   IF Len(found.caPems) > 0 THEN Join(found.caPems) ELSE Null)
     ELSE Throw(p.message)

\* a container without a certificate is refused, as extractFromP7B does
extractFromPFX_NeedsCert(pfxBuffer, password, outputKeyPassword, salt) ==
  LET d == fromDer(createBuffer(pfxBuffer))
      p == IF d.ok THEN pkcs12FromAsn1(d.asn1, password) ELSE Throw(d.message)
      found == WalkContents(NoneFound, p.p12.safeContents, outputKeyPassword, salt)
  IN IF p.ok
       THEN IF found.cert.label = "null" THEN Throw(MsgParsePfx \o MsgNoCerts)
            ELSE Parsed(found.key, found.cert,
                        IF Len(found.caPems) > 0 THEN Join(found.caPems) ELSE Null)
     ELSE IF Includes(p.message, "password") THEN Throw(MsgInvalidPassword)
     ELSE Throw(MsgParsePfx \o p.message)

extractFromPFX(pfxBuffer, password, outputKeyPassword, salt) ==
  LET d == fromDer(createBuffer(pfxBuffer))
      p == IF d.ok THEN pkcs12FromAsn1(d.asn1, password) ELSE Throw(d.message)
      found == WalkContents(NoneFound, p.p12.safeContents, outputKeyPassword, salt)
  IN IF p.ok
       THEN Parsed(found.key, found.cert,
                   IF Len(found.caPems) > 0 THEN Join(found.caPems) ELSE Null)
     ELSE IF Includes(p.message, "password") THEN Throw(MsgInvalidPassword)
     ELSE Throw(MsgParsePfx \o p.message)

\* ------------------------------------------------------- extractFromP7B
\* no check for an empty certificate list
extractFromP7B_NoCheck(p7bBuffer) ==
  LET d == fromDer(createBuffer(p7bBuffer))
      der == IF d.ok THEN messageFromAsn1(d.asn1) ELSE Throw(d.message)
      p7 == IF der.ok THEN der ELSE messageFromPem(toString(d.buffer))
      certs == p7.p7.certificates
      pemCerts == [i \in 1..Len(certs) |-> certificateToPem(certs[i])]
  IN IF ~p7.ok THEN Throw(MsgParseP7B)
     ELSE Parsed(Null,
                 IF Len(pemCerts) > 0 THEN pemCerts[1] ELSE Null,
                 IF Len(pemCerts) > 1
                   THEN Join(SubSeq(pemCerts, 2, Len(pemCerts))) ELSE Null)

extractFromP7B(p7bBuffer) ==
  LET d == fromDer(createBuffer(p7bBuffer))
      der == IF d.ok THEN messageFromAsn1(d.asn1) ELSE Throw(d.message)
      p7 == IF der.ok THEN der ELSE messageFromPem(toString(d.buffer))
      certs == p7.p7.certificates
      pemCerts == [i \in 1..Len(certs) |-> certificateToPem(certs[i])]
  IN IF ~p7.ok THEN Throw(MsgParseP7B)
     ELSE IF Len(certs) = 0 THEN Throw(MsgNoCerts)
     ELSE Parsed(Null,
                 IF Len(pemCerts) > 0 THEN pemCerts[1] ELSE Null,
                 IF Len(pemCerts) > 1
                   THEN Join(SubSeq(pemCerts, 2, Len(pemCerts))) ELSE Null)

\* --------------------------------------------------- verifyCertKeyMatch
\* only the modulus is compared
SamePublicKey_ModulusOnly(certPubKey, privateKey) ==
  publicKeyToPem(certPubKey.n, "e") = publicKeyToPem(privateKey.n, "e")

\* the PEM of the certificate's public key against the PEM of the public key
\* derived from the private key's modulus and exponent
SamePublicKey(certPubKey, privateKey) ==
  publicKeyToPem(certPubKey.n, certPubKey.e)
    = publicKeyToPem(privateKey.n, privateKey.e)

\* a key that does not parse unencrypted is decrypted, password or not
ParseKey_AlwaysDecrypt(keyPem, password) ==
  LET plain == privateKeyFromPem(keyPem)
  IN IF plain.ok THEN [ok |-> TRUE, has |-> TRUE, rsa |-> plain.rsa]
     ELSE decryptRsaPrivateKey(keyPem, password.s)

\* the inner try: unencrypted first, then decrypt if a password was given
ParseKey(keyPem, password) ==
  LET plain == privateKeyFromPem(keyPem)
  IN IF plain.ok THEN [ok |-> TRUE, has |-> TRUE, rsa |-> plain.rsa]
     ELSE IF Truthy(password) THEN decryptRsaPrivateKey(keyPem, password.s)
     ELSE Throw(MsgKeyEncrypted)

\* a key that could not be decrypted counts as a mismatch
verifyCertKeyMatch_NullIsMismatch(certPem, keyPem, password) ==
  LET c == certificateFromPem(certPem)
      k == ParseKey(keyPem, password)
      tried ==
        IF ~c.ok THEN c
        ELSE IF ~k.ok THEN k
        ELSE IF ~k.has THEN [ok |-> TRUE, match |-> FALSE]
        ELSE [ok |-> TRUE, match |-> SamePublicKey(c.cert.publicKey, k.rsa)]
  IN IF tried.ok THEN tried
     ELSE Throw(IF tried.message # <<>> THEN tried.message ELSE MsgVerify)

verifyCertKeyMatch(certPem, keyPem, password) ==
  LET c == certificateFromPem(certPem)
      k == ParseKey(keyPem, password)
      tried ==
        IF ~c.ok THEN c
        ELSE IF ~k.ok THEN k
        ELSE IF ~k.has THEN Throw(MsgNoKey)
        ELSE [ok |-> TRUE, match |-> SamePublicKey(c.cert.publicKey, k.rsa)]
  IN IF tried.ok THEN tried
     ELSE Throw(IF tried.message # <<>> THEN tried.message ELSE MsgVerify)

\* ---------------------------------------------------------------- inputs
SeqsUpTo(S, n) == UNION {[1..k -> S] : k \in 0..n}

KeyTexts ==
  { KeyText("RSA PRIVATE KEY", KA), KeyText("PRIVATE KEY", KA),
    KeyText("RSA PRIVATE KEY", KB), KeyText("RSA PRIVATE KEY", KA3),
    EncKeyText(KA, "p1", "s1"), Garbage }
CertTexts ==
  { CertText(LeafA, "crlf"), CertText(LeafA, "lf"), CertText(LeafB, "lf"),
    KeyText("PRIVATE KEY", KA), Garbage }
SomeBundles ==
  { Null, Bundle(<<>>), Bundle(<<"ca1", "END", "ws">>),
    Bundle(<<"ca1", "END", "bad">>) }
AllBundles == {Bundle(toks) : toks \in SeqsUpTo(BundleTokens, MaxCaLen)}
OutPasswords == {NoPw, Pw(""), Pw("p2")}
KeyPasswords == {NoPw, Pw(""), Pw("p1"), Pw("p2")}

NoFile == [enc |-> "absent", asn1 |-> NoAsn1]

\* uploaded PKCS#12 containers: up to MaxBags safe bags in two SafeContents,
\* the first encrypted or not, with or without a MAC, protected by "p1"
BagKinds == {CertBag(LeafA), CertBag(CA1), ShroudedKeyBag(KA), KeyBag(KB)}
UploadedPfx ==
  UNION { { DerFile(PfxAsn1(mac, "p1", "s1", "upload",
              << SafeContents(encrypted, SubSeq(bags, 1, cut)),
                 SafeContents(FALSE, SubSeq(bags, cut + 1, Len(bags))) >>))
            : mac \in BOOLEAN, encrypted \in BOOLEAN, cut \in 0..Len(bags) }
          : bags \in SeqsUpTo(BagKinds, MaxBags) }

\* uploaded PKCS#12 containers with several key bags, some of them holding a
\* key that forge cannot decode
KeyBagKinds ==
  {ShroudedKeyBag(KA), KeyBag(KB), UndecodedKeyBag("keyBag"),
   UndecodedKeyBag("pkcs8ShroudedKeyBag"), CertBag(LeafA)}
KeyUploads ==
  UNION { { DerFile(PfxAsn1(TRUE, "p1", "s1", "upload",
              << SafeContents(encrypted, SubSeq(bags, 1, cut)),
                 SafeContents(FALSE, SubSeq(bags, cut + 1, Len(bags))) >>))
            : encrypted \in BOOLEAN, cut \in 0..Len(bags) }
          : bags \in SeqsUpTo(KeyBagKinds, MaxBags) }

\* uploaded PKCS#7 containers: up to MaxCerts certificates, DER or PEM
UploadedP7b ==
  { [enc |-> enc, asn1 |-> P7Asn1(certs)]
      : enc \in {"DER", "PEM"}, certs \in SeqsUpTo({LeafA, CA1, CA2}, MaxCerts) }

Uploads == UploadedPfx \cup UploadedP7b \cup {JunkFile}

\* ----------------------------------------------------------- the panels
\* at most this many handlers wait for their timer, file or reply
MaxPending == 1
\* at most this many files are handed to the browser as downloads
MaxDownloads == 1
Modes == {"PFX_TO_PEM", "PEM_TO_PFX", "MATCH_CHECKER", "AI_ANALYSIS"}

\* a text or file as the user gave it to a field of a panel, and a value a
\* panel computed from such texts
Typed(panel, text) == [from |-> panel, text |-> text]
EmptyText == [label |-> "empty"]
BlankText == [label |-> "blank"]
Trimmed(text) == IF text = BlankText THEN EmptyText ELSE text

\* string | null state holding an error message
NoError == [shown |-> FALSE, message |-> <<>>]
ShowError(message) == [shown |-> TRUE, message |-> message]
\* err.message || fallback
OrFallback(message, fallback) == IF message # <<>> THEN message ELSE fallback
\* password || undefined
OrUndefined(s) == IF s = "" THEN NoPw ELSE Pw(s)
\* caPem || null
OrNull(text) == IF text = EmptyText THEN Null ELSE text

MsgSelectFile == <<"Please select a file first.">>
MsgInvalidType == <<"Invalid file type. Supported formats: .pfx, .p12, .p7b, .p7c">>
MsgEnterPassword == <<"Please enter the PFX password.">>
MsgUnknownConversion == <<"An unknown error occurred during conversion.">>
MsgKeyRequired == <<"Private Key is required for PFX generation.">>
MsgCertRequired == <<"Certificate is required.">>
MsgGenerateFallback == <<"Failed to generate.">>
MsgVerifyFallback == <<"Failed to verify certificate and key pair.">>

\* PFXExtractor: the files a user picks, by name
UiFile(name, bytes) == [from |-> "PFXExtractor", name |-> name, bytes |-> bytes]
NoUiFile == UiFile("", NoFile)
UiPfx ==
  DerFile(PfxAsn1(TRUE, "p1", "s1", "upload",
            << SafeContents(TRUE, <<CertBag(LeafA), CertBag(CA1)>>),
               SafeContents(FALSE, <<ShroudedKeyBag(KA)>>) >>))
UiFiles ==
  { UiFile("site.pfx", UiPfx),
    UiFile("CHAIN.P7B", PemFile(P7Asn1(<<LeafA, CA1>>))),
    UiFile("ca.p7c", DerFile(P7Asn1(<<LeafA, CA1>>))),
    UiFile("notes.txt", JunkFile) }
\* file.name.toLowerCase()
ToLowerCase(name) == IF name = "CHAIN.P7B" THEN "chain.p7b" ELSE name
\* String.prototype.endsWith, on the names above
EndsWith(name, ext) ==
  \/ ext = ".pfx" /\ name = "site.pfx"
  \/ ext = ".p7b" /\ name = "chain.p7b"
  \/ ext = ".p7c" /\ name = "ca.p7c"
isP7B(filename) ==
  LET lower == ToLowerCase(filename)
  IN EndsWith(lower, ".p7b") \/ EndsWith(lower, ".p7c")

NoResult ==
  [shown |-> FALSE, from |-> "PFXExtractor", value |-> [ok |-> FALSE, message |-> <<>>]]
ShowResult(value) == [shown |-> TRUE, from |-> "PFXExtractor", value |-> value]

ExtractorInit ==
  [file |-> NoUiFile, password |-> "", outputPassword |-> "",
   result |-> NoResult, error |-> NoError, isProcessing |-> FALSE]
GeneratorInit ==
  [keyPem |-> Typed("PFXGenerator", EmptyText),
   certPem |-> Typed("PFXGenerator", EmptyText),
   caPem |-> Typed("PFXGenerator", EmptyText),
   password |-> "", friendlyName |-> "", format |-> "pfx",
   error |-> NoError, isProcessing |-> FALSE]
CheckerInit ==
  [certPem |-> Typed("MatchChecker", EmptyText),
   keyPem |-> Typed("MatchChecker", EmptyText),
   password |-> "", status |-> "idle", errorMsg |-> NoError,
   isVerifying |-> FALSE]
NoAnalysis == [shown |-> FALSE, reply |-> ""]
AnalyzerInit ==
  [pem |-> Typed("CertificateAnalyzer", EmptyText),
   analysis |-> NoAnalysis, loading |-> FALSE]

\* what the user types or uploads into the fields
ExtractorPasswords == {"", "p1", "p2"}
UiOutPasswords == {"", "p2"}
UiPasswords == {"", "p1"}
GeneratorKeyTexts == {EmptyText, KeyText("PRIVATE KEY", KA)}
GeneratorCertTexts == {EmptyText, CertText(LeafA, "lf"), Garbage}
GeneratorCaTexts == {EmptyText, Bundle(<<"ca1", "END">>)}
CheckerCertTexts == {EmptyText, CertText(LeafA, "lf")}
CheckerKeyTexts ==
  {EmptyText, KeyText("PRIVATE KEY", KA), EncKeyText(KB, "p1", "s1")}
AnalyzerTexts ==
  {EmptyText, BlankText, CertText(LeafA, "lf")}

\* analyzeCertificate up to its await: without an API key nothing is sent,
\* with one the prompt holding certPem goes to the Gemini API
analyzeCertificate(certPem, apiKey) ==
  [sent |-> apiKey,
   request |-> [model |-> "gemini-3-pro-preview", contents |-> certPem]]

\* what analyzeCertificate resolves to
Replies(sent) ==
  IF sent THEN {"response.text", "No analysis could be generated.",
                "Failed to analyze certificate"}
          ELSE {"Analysis unavailable: API Key not configured"}

\* a handler waiting at its await, with the values of its closure that the
\* rest of the handler reads
Task(panel, args) == [panel |-> panel, mounted |-> TRUE, args |-> args]

\* the codec call the rest of handleConvert makes from its closure a
ConvertCall(a) ==
  IF isP7B(ToLowerCase(a.file.name))
    THEN [op |-> "extractFromP7B", fileBuffer |-> a.file.bytes]
    ELSE [op |-> "extractFromPFX", fileBuffer |-> a.file.bytes,
          password |-> a.password,
          outputKeyPassword |-> OrUndefined(a.outputPassword)]

\* the codec call the rest of handleGenerate makes from its closure a
GenerateCall(a) ==
  IF a.format = "pfx"
    THEN [op |-> "createPFX", keyPem |-> a.keyPem.text,
          certPem |-> a.certPem.text, caPem |-> OrNull(a.caPem.text),
          password |-> a.password,
          friendlyName |-> OrUndefined(a.friendlyName)]
    ELSE [op |-> "createP7B", certPem |-> a.certPem.text,
          caPem |-> OrNull(a.caPem.text)]

\* the codec call the rest of handleVerify makes from its closure a
VerifyCall(a) ==
  [op |-> "verifyCertKeyMatch", certPem |-> a.certPem.text,
   keyPem |-> a.keyPem.text, keyPassword |-> OrUndefined(a.password)]

\* friendlyName.trim() || 'certificate'; the friendly names typed hold no
\* surrounding blanks
FileNameBase(friendlyName) ==
  IF friendlyName = "" THEN "certificate" ELSE friendlyName
\* downloadBlob and downloadText: a.download and the Blob's type of the
\* link that is clicked
DownloadBlob(filename, type) == [download |-> filename, type |-> type]
DownloadText(filename) == [download |-> filename, type |-> "text/plain"]
\* what handleGenerate downloads for its closure a
GeneratedFile(a) ==
  IF a.format = "pfx"
    THEN DownloadBlob(<<FileNameBase(a.friendlyName), ".pfx">>,
                      "application/x-pkcs12")
    ELSE DownloadText(<<FileNameBase(a.friendlyName), ".p7b">>)

\* ----------------------------------------------------------------- state
VARIABLES
  keyPem,     \* private key text given to the codec
  certPem,    \* leaf certificate text given to the codec
  caPem,      \* CA bundle text given to the codec, or null
  password,   \* export password
  upload,     \* a file that did not come from this codec, or NoFile
  pfxOut,     \* what the last createPFX returned or threw
  p7bOut,     \* what the last createP7B returned or threw
  call,       \* the last codec call and its other arguments
  res,        \* what the last codec call returned or threw
  env,        \* process.env as the page sees it
  mode,       \* App: the tab shown
  extractor,  \* PFXExtractor's state
  generator,  \* PFXGenerator's state
  checker,    \* MatchChecker's state
  analyzer,   \* CertificateAnalyzer's state
  pending,    \* the handlers waiting at an await
  network,    \* the requests that left the page
  downloads   \* the files handed to the browser, in order

codec == <<keyPem, certPem, caPem, password, upload, pfxOut, p7bOut, call, res>>
app == <<env, mode, extractor, generator, checker, analyzer, pending, network,
        downloads>>
vars == <<codec, app>>
inputs == <<keyPem, certPem, caPem, password, upload>>

\* the page as it is loaded
AppLoaded ==
  /\ mode = "PFX_TO_PEM"
  /\ extractor = ExtractorInit
  /\ generator = GeneratorInit
  /\ checker = CheckerInit
  /\ analyzer = AnalyzerInit
  /\ pending = <<>>
  /\ network = {}
  /\ downloads = <<>>

NotCalled == [ok |-> FALSE, message |-> <<>>, called |-> FALSE]

Init ==
  /\ \/ /\ keyPem \in KeyTexts
        /\ certPem \in CertTexts
        /\ caPem \in SomeBundles
        /\ password \in Passwords
        /\ upload = NoFile
     \/ /\ keyPem = KeyText("PRIVATE KEY", KA)
        /\ certPem = CertText(LeafA, "lf")
        /\ caPem \in AllBundles
        /\ password = "p1"
        /\ upload = NoFile
     \/ /\ keyPem = Garbage
        /\ certPem = Garbage
        /\ caPem = Null
        /\ password = "p1"
        /\ upload \in Uploads
  /\ pfxOut = NotCalled
  /\ p7bOut = NotCalled
  /\ call = [op |-> "none"]
  /\ res = NotCalled
  /\ env = [API_KEY |-> FALSE]
  /\ AppLoaded

\* the files at hand: the outputs of createPFX and createP7B, and the upload
Files ==
  (IF pfxOut.ok THEN {pfxOut.file} ELSE {})
    \cup (IF p7bOut.ok THEN {p7bOut.file} ELSE {})
    \cup (IF upload # NoFile THEN {upload} ELSE {})

CallCreatePFX ==
  \E friendlyName \in {NoPw, Pw("")}, salt \in Salts :
    LET r == createPFX(keyPem, certPem, caPem, password, friendlyName, salt)
    IN /\ pfxOut' = r
       /\ call' = [op |-> "createPFX"]
       /\ res' = r
       /\ UNCHANGED <<inputs, p7bOut, app>>

CallCreateP7B ==
  LET r == createP7B(certPem, caPem)
  IN /\ p7bOut' = r
     /\ call' = [op |-> "createP7B"]
     /\ res' = r
     /\ UNCHANGED <<inputs, pfxOut, app>>

CallExtractFromPFX ==
  \E file \in Files, pw \in Passwords, out \in OutPasswords, salt \in Salts :
    /\ call' = [op |-> "extractFromPFX", file |-> file, password |-> pw,
                outputKeyPassword |-> out]
    /\ res' = extractFromPFX(file, pw, out, salt)
    /\ UNCHANGED <<inputs, pfxOut, p7bOut, app>>

CallExtractFromP7B ==
  \E file \in Files :
    /\ call' = [op |-> "extractFromP7B", file |-> file]
    /\ res' = extractFromP7B(file)
    /\ UNCHANGED <<inputs, pfxOut, p7bOut, app>>

CallVerifyCertKeyMatch ==
  \E pw \in KeyPasswords :
    /\ call' = [op |-> "verifyCertKeyMatch", keyPassword |-> pw]
    /\ res' = verifyCertKeyMatch(certPem, keyPem, pw)
    /\ UNCHANGED <<inputs, pfxOut, p7bOut, app>>

Next ==
  \/ CallCreatePFX
  \/ CallCreateP7B
  \/ CallExtractFromPFX
  \/ CallExtractFromP7B
  \/ CallVerifyCertKeyMatch

Spec == Init /\ [][Next]_vars

\* extractFromPFX on the containers with several key bags
KeyInit ==
  /\ keyPem = Garbage
  /\ certPem = Garbage
  /\ caPem = Null
  /\ password = "p1"
  /\ upload \in KeyUploads
  /\ pfxOut = NotCalled
  /\ p7bOut = NotCalled
  /\ call = [op |-> "none"]
  /\ res = NotCalled
  /\ env = [API_KEY |-> FALSE]
  /\ AppLoaded

KeySpec == KeyInit /\ [][CallExtractFromPFX]_vars

\* ------------------------------------------------------------------- App
\* the sequence without its i-th element
Remove(seq, i) == SubSeq(seq, 1, i - 1) \o SubSeq(seq, i + 1, Len(seq))
Room == Len(pending) < MaxPending
\* a generation starts only while the browser takes another download
DownloadRoom ==
  Len(downloads)
    + Cardinality({i \in 1..Len(pending) : pending[i].panel = "PFXGenerator"})
  < MaxDownloads

\* a tab button: App renders one panel at a time, so the panel shown is
\* unmounted and loses its state, and the panel of the new mode mounts with
\* its initial state; handlers of the unmounted panel still run to their end
SetMode ==
  \E m \in Modes \ {mode} :
    /\ mode' = m
    /\ extractor' = ExtractorInit
    /\ generator' = GeneratorInit
    /\ checker' = CheckerInit
    /\ analyzer' = AnalyzerInit
    /\ pending' = [i \in 1..Len(pending) |-> [pending[i] EXCEPT !.mounted = FALSE]]
    /\ UNCHANGED <<codec, downloads, env, network>>

\* --------------------------------------------------------- PFXExtractor
\* handleFileChange and handleDrop: a file was picked or dropped
HandleFileChange ==
  /\ mode = "PFX_TO_PEM"
  /\ \E f \in UiFiles :
       extractor' = [extractor EXCEPT !.file = f, !.error = NoError,
                                      !.result = NoResult]
  /\ UNCHANGED <<codec, downloads, env, mode, generator, checker, analyzer, pending, network>>

\* the password inputs are disabled while a .p7b or .p7c file is selected
PasswordsEnabled ==
  ~(extractor.file # NoUiFile /\ isP7B(extractor.file.name))

ExtractorSetPassword ==
  /\ mode = "PFX_TO_PEM" /\ PasswordsEnabled
  /\ \E s \in ExtractorPasswords \ {extractor.password} :
       extractor' = [extractor EXCEPT
                       !.password = s,
                       !.error = IF @ = ShowError(MsgEnterPassword)
                                   THEN NoError ELSE @]
  /\ UNCHANGED <<codec, downloads, env, mode, generator, checker, analyzer, pending, network>>

ExtractorSetOutputPassword ==
  /\ mode = "PFX_TO_PEM" /\ PasswordsEnabled
  /\ \E s \in UiOutPasswords \ {extractor.outputPassword} :
       extractor' = [extractor EXCEPT !.outputPassword = s]
  /\ UNCHANGED <<codec, downloads, env, mode, generator, checker, analyzer, pending, network>>

\* the conversion starts without the password check
HandleConvert_NoPasswordCheck ==
  /\ mode = "PFX_TO_PEM"
  /\ LET file == extractor.file
         fileName == ToLowerCase(file.name)
         isP7bFile == isP7B(fileName)
         rejected(message) ==
           /\ extractor' = [extractor EXCEPT !.error = ShowError(message)]
           /\ pending' = pending
     IN IF file = NoUiFile THEN rejected(MsgSelectFile)
        ELSE IF ~EndsWith(fileName, ".pfx") /\ ~EndsWith(fileName, ".p12")
                  /\ ~isP7bFile
          THEN rejected(MsgInvalidType)
        ELSE /\ Room
             /\ extractor' = [extractor EXCEPT !.error = NoError,
                                               !.isProcessing = TRUE]
             /\ pending' = Append(pending,
                  Task("PFXExtractor",
                       [file |-> file, password |-> extractor.password,
                        outputPassword |-> extractor.outputPassword]))
  /\ UNCHANGED <<codec, downloads, env, mode, generator, checker, analyzer, network>>

\* handleConvert up to its first await
HandleConvert ==
  /\ mode = "PFX_TO_PEM"
  /\ LET file == extractor.file
         fileName == ToLowerCase(file.name)
         isP7bFile == isP7B(fileName)
         rejected(message) ==
           /\ extractor' = [extractor EXCEPT !.error = ShowError(message)]
           /\ pending' = pending
     IN IF file = NoUiFile THEN rejected(MsgSelectFile)
        ELSE IF ~EndsWith(fileName, ".pfx") /\ ~EndsWith(fileName, ".p12")
                  /\ ~isP7bFile
          THEN rejected(MsgInvalidType)
        ELSE IF ~isP7bFile /\ extractor.password = ""
          THEN rejected(MsgEnterPassword)
        ELSE /\ Room
             /\ extractor' = [extractor EXCEPT !.error = NoError,
                                               !.isProcessing = TRUE]
             /\ pending' = Append(pending,
                  Task("PFXExtractor",
                       IF isP7bFile
                         THEN [file |-> file]
                         ELSE [file |-> file, password |-> extractor.password,
                               outputPassword |-> extractor.outputPassword]))
  /\ UNCHANGED <<codec, downloads, env, mode, generator, checker, analyzer, network>>

\* the extracted certificate is also sent for analysis
ConvertDone_Analyzes ==
  \E i \in 1..Len(pending), salt \in Salts :
    /\ pending[i].panel = "PFXExtractor"
    /\ LET c == ConvertCall(pending[i].args)
           r == IF c.op = "extractFromP7B"
                  THEN extractFromP7B(c.fileBuffer)
                  ELSE extractFromPFX(c.fileBuffer, c.password,
                                      c.outputKeyPassword, salt)
       IN /\ extractor' =
               IF ~pending[i].mounted THEN extractor
               ELSE IF r.ok
                 THEN [extractor EXCEPT !.result = ShowResult(r),
                                        !.isProcessing = FALSE]
                 ELSE [extractor EXCEPT
                         !.error = ShowError(OrFallback(r.message, MsgUnknownConversion)),
                         !.isProcessing = FALSE]
          /\ network' =
               IF r.ok /\ env.API_KEY
                 THEN network \cup
                        {analyzeCertificate(Typed("PFXExtractor", r.cert),
                                            env.API_KEY).request}
                 ELSE network
    /\ pending' = Remove(pending, i)
    /\ UNCHANGED <<codec, downloads, env, mode, generator, checker, analyzer>>

\* handleConvert after the delay and the file read
ConvertDone ==
  \E i \in 1..Len(pending), salt \in Salts :
    /\ pending[i].panel = "PFXExtractor"
    /\ LET c == ConvertCall(pending[i].args)
           r == IF c.op = "extractFromP7B"
                  THEN extractFromP7B(c.fileBuffer)
                  ELSE extractFromPFX(c.fileBuffer, c.password,
                                      c.outputKeyPassword, salt)
       IN extractor' =
            IF ~pending[i].mounted THEN extractor
            ELSE IF r.ok
              THEN [extractor EXCEPT !.result = ShowResult(r),
                                     !.isProcessing = FALSE]
              ELSE [extractor EXCEPT
                      !.error = ShowError(OrFallback(r.message, MsgUnknownConversion)),
                      !.isProcessing = FALSE]
    /\ pending' = Remove(pending, i)
    /\ UNCHANGED <<codec, downloads, env, mode, generator, checker, analyzer, network>>

\* --------------------------------------------------------- PFXGenerator
\* the text areas and inputs, and handleFileUpload for the same fields; the
\* friendly name stays as loaded (empty)
GeneratorSetKeyPem ==
  /\ mode = "PEM_TO_PFX"
  /\ \E t \in GeneratorKeyTexts \ {generator.keyPem.text} :
       generator' = [generator EXCEPT !.keyPem = Typed("PFXGenerator", t)]
  /\ UNCHANGED <<codec, downloads, env, mode, extractor, checker, analyzer, pending, network>>

GeneratorSetCertPem ==
  /\ mode = "PEM_TO_PFX"
  /\ \E t \in GeneratorCertTexts \ {generator.certPem.text} :
       generator' = [generator EXCEPT !.certPem = Typed("PFXGenerator", t)]
  /\ UNCHANGED <<codec, downloads, env, mode, extractor, checker, analyzer, pending, network>>

GeneratorSetCaPem ==
  /\ mode = "PEM_TO_PFX"
  /\ \E t \in GeneratorCaTexts \ {generator.caPem.text} :
       generator' = [generator EXCEPT !.caPem = Typed("PFXGenerator", t)]
  /\ UNCHANGED <<codec, downloads, env, mode, extractor, checker, analyzer, pending, network>>

GeneratorSetPassword ==
  /\ mode = "PEM_TO_PFX"
  /\ \E s \in UiPasswords \ {generator.password} :
       generator' = [generator EXCEPT !.password = s]
  /\ UNCHANGED <<codec, downloads, env, mode, extractor, checker, analyzer, pending, network>>

SetFormat ==
  /\ mode = "PEM_TO_PFX"
  /\ \E f \in {"pfx", "p7b"} \ {generator.format} :
       generator' = [generator EXCEPT !.format = f]
  /\ UNCHANGED <<codec, downloads, env, mode, extractor, checker, analyzer, pending, network>>

\* handleGenerate up to its await
HandleGenerate ==
  /\ mode = "PEM_TO_PFX"
  /\ LET rejected(message) ==
           /\ generator' = [generator EXCEPT !.error = ShowError(message)]
           /\ pending' = pending
     IN IF generator.format = "pfx" /\ generator.keyPem.text = EmptyText
          THEN rejected(MsgKeyRequired)
        ELSE IF generator.certPem.text = EmptyText
          THEN rejected(MsgCertRequired)
        ELSE /\ Room /\ DownloadRoom
             /\ generator' = [generator EXCEPT !.error = NoError,
                                               !.isProcessing = TRUE]
             /\ pending' = Append(pending,
                  Task("PFXGenerator",
                       IF generator.format = "pfx"
                         THEN [keyPem |-> generator.keyPem,
                               certPem |-> generator.certPem,
                               caPem |-> generator.caPem,
                               password |-> generator.password,
                               friendlyName |-> generator.friendlyName,
                               format |-> generator.format]
                         ELSE [certPem |-> generator.certPem,
                               caPem |-> generator.caPem,
                               friendlyName |-> generator.friendlyName,
                               format |-> generator.format]))
  /\ UNCHANGED <<codec, downloads, env, mode, extractor, checker, analyzer, network>>

\* the download link is clicked before the codec has returned
GenerateDone_DownloadsFirst ==
  \E i \in 1..Len(pending), salt \in Salts :
    /\ pending[i].panel = "PFXGenerator"
    /\ LET a == pending[i].args
           c == GenerateCall(a)
           r == IF c.op = "createPFX"
                  THEN createPFX(c.keyPem, c.certPem, c.caPem, c.password,
                                 c.friendlyName, salt)
                  ELSE createP7B(c.certPem, c.caPem)
       IN /\ downloads' = Append(downloads, GeneratedFile(a))
          /\ generator' =
               IF ~pending[i].mounted THEN generator
               ELSE IF r.ok THEN [generator EXCEPT !.isProcessing = FALSE]
               ELSE [generator EXCEPT
                       !.error = ShowError(OrFallback(r.message, MsgGenerateFallback)),
                       !.isProcessing = FALSE]
    /\ pending' = Remove(pending, i)
    /\ UNCHANGED <<codec, env, mode, extractor, checker, analyzer, network>>

\* handleGenerate after the delay: the file is built and handed to the
\* browser as a download, or the error is shown
GenerateDone ==
  \E i \in 1..Len(pending), salt \in Salts :
    /\ pending[i].panel = "PFXGenerator"
    /\ LET a == pending[i].args
           c == GenerateCall(a)
           r == IF c.op = "createPFX"
                  THEN createPFX(c.keyPem, c.certPem, c.caPem, c.password,
                                 c.friendlyName, salt)
                  ELSE createP7B(c.certPem, c.caPem)
       IN /\ downloads' = IF r.ok THEN Append(downloads, GeneratedFile(a))
                                  ELSE downloads
          /\ generator' =
               IF ~pending[i].mounted THEN generator
               ELSE IF r.ok THEN [generator EXCEPT !.isProcessing = FALSE]
               ELSE [generator EXCEPT
                       !.error = ShowError(OrFallback(r.message, MsgGenerateFallback)),
                       !.isProcessing = FALSE]
    /\ pending' = Remove(pending, i)
    /\ UNCHANGED <<codec, env, mode, extractor, checker, analyzer, network>>

\* --------------------------------------------------------- MatchChecker
\* the text areas and the password input, and handleFileUpload for the
\* same fields: the field is set and status goes back to idle
CheckerSetCertPem ==
  /\ mode = "MATCH_CHECKER"
  /\ \E t \in CheckerCertTexts \ {checker.certPem.text} :
       checker' = [checker EXCEPT !.certPem = Typed("MatchChecker", t),
                                  !.status = "idle"]
  /\ UNCHANGED <<codec, downloads, env, mode, extractor, generator, analyzer, pending, network>>

CheckerSetKeyPem ==
  /\ mode = "MATCH_CHECKER"
  /\ \E t \in CheckerKeyTexts \ {checker.keyPem.text} :
       checker' = [checker EXCEPT !.keyPem = Typed("MatchChecker", t),
                                  !.status = "idle"]
  /\ UNCHANGED <<codec, downloads, env, mode, extractor, generator, analyzer, pending, network>>

\* the verdict stays when the password is edited
CheckerSetPassword_KeepsStatus ==
  /\ mode = "MATCH_CHECKER"
  /\ \E s \in UiPasswords \ {checker.password} :
       checker' = [checker EXCEPT !.password = s]
  /\ UNCHANGED <<codec, downloads, env, mode, extractor, generator, analyzer, pending, network>>

CheckerSetPassword ==
  /\ mode = "MATCH_CHECKER"
  /\ \E s \in UiPasswords \ {checker.password} :
       checker' = [checker EXCEPT !.password = s, !.status = "idle"]
  /\ UNCHANGED <<codec, downloads, env, mode, extractor, generator, analyzer, pending, network>>

\* the Reset and Try again buttons under a verdict or an error
CheckerReset ==
  /\ mode = "MATCH_CHECKER"
  /\ checker.status # "idle"
  /\ checker' = [checker EXCEPT !.status = "idle"]
  /\ UNCHANGED <<codec, downloads, env, mode, extractor, generator, analyzer, pending, network>>

\* handleVerify up to its await
HandleVerify ==
  /\ mode = "MATCH_CHECKER"
  /\ checker.certPem.text # EmptyText /\ checker.keyPem.text # EmptyText
  /\ Room
  /\ checker' = [checker EXCEPT !.isVerifying = TRUE, !.errorMsg = NoError,
                                !.status = "idle"]
  /\ pending' = Append(pending,
       Task("MatchChecker",
            [certPem |-> checker.certPem, keyPem |-> checker.keyPem,
             password |-> checker.password]))
  /\ UNCHANGED <<codec, downloads, env, mode, extractor, generator, analyzer, network>>

\* handleVerify after the delay
VerifyDone ==
  \E i \in 1..Len(pending) :
    /\ pending[i].panel = "MatchChecker"
    /\ LET c == VerifyCall(pending[i].args)
           r == verifyCertKeyMatch(c.certPem, c.keyPem, c.keyPassword)
       IN checker' =
            IF ~pending[i].mounted THEN checker
            ELSE IF r.ok
              THEN [checker EXCEPT
                      !.status = IF r.match THEN "match" ELSE "mismatch",
                      !.isVerifying = FALSE]
              ELSE [checker EXCEPT
                      !.status = "error",
                      !.errorMsg = ShowError(OrFallback(r.message, MsgVerifyFallback)),
                      !.isVerifying = FALSE]
    /\ pending' = Remove(pending, i)
    /\ UNCHANGED <<codec, downloads, env, mode, extractor, generator, analyzer, network>>

\* --------------------------------------------------- CertificateAnalyzer
SetPem ==
  /\ mode = "AI_ANALYSIS"
  /\ \E t \in AnalyzerTexts \ {analyzer.pem.text} :
       analyzer' = [analyzer EXCEPT !.pem = Typed("CertificateAnalyzer", t)]
  /\ UNCHANGED <<codec, downloads, env, mode, extractor, generator, checker, pending, network>>

\* handleAnalyze up to its await
HandleAnalyze ==
  /\ mode = "AI_ANALYSIS"
  /\ Trimmed(analyzer.pem.text) # EmptyText
  /\ Room
  /\ LET a == analyzeCertificate(analyzer.pem, env.API_KEY)
     IN /\ network' = IF a.sent THEN network \cup {a.request} ELSE network
        /\ pending' = Append(pending,
             Task("CertificateAnalyzer", [sent |-> a.sent]))
  /\ analyzer' = [analyzer EXCEPT !.loading = TRUE, !.analysis = NoAnalysis]
  /\ UNCHANGED <<codec, downloads, env, mode, extractor, generator, checker>>

\* handleAnalyze after analyzeCertificate resolved
AnalyzeDone ==
  \E i \in 1..Len(pending) :
    /\ pending[i].panel = "CertificateAnalyzer"
    /\ \E reply \in Replies(pending[i].args.sent) :
         analyzer' =
           IF ~pending[i].mounted THEN analyzer
           ELSE [analyzer EXCEPT
                   !.analysis = [shown |-> TRUE, reply |-> reply],
                   !.loading = FALSE]
    /\ pending' = Remove(pending, i)
    /\ UNCHANGED <<codec, downloads, env, mode, extractor, generator, checker, network>>

AppInit ==
  /\ keyPem = Garbage
  /\ certPem = Garbage
  /\ caPem = Null
  /\ password = "p1"
  /\ upload = NoFile
  /\ pfxOut = NotCalled
  /\ p7bOut = NotCalled
  /\ call = [op |-> "none"]
  /\ res = NotCalled
  /\ env \in {[API_KEY |-> k] : k \in BOOLEAN}
  /\ AppLoaded

AppNext ==
  \/ SetMode
  \/ HandleFileChange
  \/ ExtractorSetPassword
  \/ ExtractorSetOutputPassword
  \/ HandleConvert
  \/ ConvertDone
  \/ GeneratorSetKeyPem
  \/ GeneratorSetCertPem
  \/ GeneratorSetCaPem
  \/ GeneratorSetPassword
  \/ SetFormat
  \/ HandleGenerate
  \/ GenerateDone
  \/ CheckerSetCertPem
  \/ CheckerSetKeyPem
  \/ CheckerSetPassword
  \/ CheckerReset
  \/ HandleVerify
  \/ VerifyDone
  \/ SetPem
  \/ HandleAnalyze
  \/ AnalyzeDone

AppSpec == AppInit /\ [][AppNext]_vars

\* one panel at work, with the tabs: the other panels are shown and left
\* again, and nothing is done in them
ExtractorNext ==
  \/ SetMode
  \/ HandleFileChange
  \/ ExtractorSetPassword
  \/ ExtractorSetOutputPassword
  \/ HandleConvert
  \/ ConvertDone

ExtractorSpec == AppInit /\ [][ExtractorNext]_vars

GeneratorNext ==
  \/ SetMode
  \/ GeneratorSetKeyPem
  \/ GeneratorSetCertPem
  \/ GeneratorSetCaPem
  \/ GeneratorSetPassword
  \/ SetFormat
  \/ HandleGenerate
  \/ GenerateDone

GeneratorSpec == AppInit /\ [][GeneratorNext]_vars

CheckerNext ==
  \/ SetMode
  \/ CheckerSetCertPem
  \/ CheckerSetKeyPem
  \/ CheckerSetPassword
  \/ CheckerReset
  \/ HandleVerify
  \/ VerifyDone

CheckerSpec == AppInit /\ [][CheckerNext]_vars

\* ------------------------------------------------------------ properties
\* what the texts and files are, said without the codec's operators
IsPlainKey(pem) == pem.label \in {"RSA PRIVATE KEY", "PRIVATE KEY"}
IsCert(pem) == pem.label = "CERTIFICATE"
IsNull(v) == v.label = "null"
BundleToks == IF caPem.label = "bundle" THEN caPem.toks ELSE <<>>
FromCreatePFX == pfxOut.ok /\ call.file = pfxOut.file
FromCreateP7B == p7bOut.ok /\ call.file = p7bOut.file

\* C1: for a valid unencrypted private key, a valid leaf certificate, any CA
\* bundle and any password, createPFX succeeds, and extractFromPFX on its
\* output with the same password succeeds and returns the input key's
\* material and the input leaf certificate.
C1_RoundTrip ==
  (IsPlainKey(keyPem) /\ IsCert(certPem)) =>
    /\ pfxOut # NotCalled => pfxOut.ok
    /\ (call.op = "extractFromPFX" /\ FromCreatePFX /\ call.password = password)
         => /\ res.ok
            /\ ~IsNull(res.key) /\ res.key.rsa = keyPem.rsa
            /\ IsCert(res.cert) /\ res.cert.x509 = certPem.x509

C1_Witness ==
  /\ IsPlainKey(keyPem) /\ IsCert(certPem)
  /\ caPem.label = "bundle" /\ caPem.toks = <<"ca1", "END", "ws">>
  /\ call.op = "extractFromPFX" /\ FromCreatePFX /\ call.password = password
  /\ res.ok /\ res.cert.x509 = certPem.x509 /\ ~IsNull(res.ca)

\* the key text can be read with the password given (none needed if plain)
KeyReadable(pem, pw) ==
  \/ IsPlainKey(pem)
  \/ pem.label = "ENCRYPTED PRIVATE KEY" /\ Truthy(pw) /\ pw.s = pem.pw

\* C2: on a certificate and a readable private key, verifyCertKeyMatch
\* returns true exactly when the certificate's public key has the private
\* key's modulus and public exponent, and false otherwise.
C2_MatchIffSameKey ==
  (call.op = "verifyCertKeyMatch" /\ IsCert(certPem)
     /\ KeyReadable(keyPem, call.keyPassword))
    => /\ res.ok
       /\ res.match <=> /\ certPem.x509.publicKey.n = keyPem.rsa.n
                        /\ certPem.x509.publicKey.e = keyPem.rsa.e

C2_Witness ==
  /\ call.op = "verifyCertKeyMatch" /\ IsCert(certPem) /\ IsPlainKey(keyPem)
  /\ certPem.x509.publicKey = keyPem.rsa
  /\ res.ok /\ res.match

\* a PKCS#12 file that a password protects: it has a MAC or encrypted parts
Protected(file) ==
  /\ file.enc = "DER" /\ file.asn1.type = "PFX"
  /\ \/ file.asn1.mac
     \/ \E i \in 1..Len(file.asn1.safeContents) :
           NeedsPassword(file.asn1.safeContents[i])

\* C3: extractFromPFX with a password other than the container's signals
\* "Invalid password or corrupted file.", never "Failed to parse PFX" and
\* never a result.
C3_WrongPasswordIsCredentialError ==
  (call.op = "extractFromPFX" /\ Protected(call.file)
     /\ call.password # call.file.asn1.password)
    => ~res.ok /\ res.message = MsgInvalidPassword

\* C4: verifyCertKeyMatch returns false only when the certificate and the
\* key were both parsed and their public keys differ; when the certificate
\* or the key cannot be parsed (a wrong key password included) it throws an
\* error with a message and returns neither true nor false.
C4_FalseOnlyForMismatch ==
  call.op = "verifyCertKeyMatch" =>
    /\ (res.ok /\ ~res.match)
         => /\ IsCert(certPem) /\ KeyReadable(keyPem, call.keyPassword)
            /\ certPem.x509.publicKey # keyPem.rsa
    /\ ~(IsCert(certPem) /\ KeyReadable(keyPem, call.keyPassword))
         => ~res.ok /\ res.message # <<>>

C4_Witness ==
  /\ call.op = "verifyCertKeyMatch" /\ IsCert(certPem)
  /\ keyPem.label = "ENCRYPTED PRIVATE KEY"
  /\ Truthy(call.keyPassword) /\ call.keyPassword.s # keyPem.pw
  /\ ~res.ok /\ res.message = MsgNoKey

\* a file that holds a PKCS#7 container, DER or PEM encoded
HoldsP7(file) == file.enc \in {"DER", "PEM"} /\ file.asn1.type = "PKCS7"
PemOf(certs) == [i \in 1..Len(certs) |-> CertText(certs[i], "crlf")]

\* C5: on a PKCS#7 container with N >= 1 certificates extractFromP7B returns
\* key = null, cert = the first certificate, and ca = the other N-1 in
\* container order (null when N = 1).
C5_LeafAndChain ==
  (call.op = "extractFromP7B" /\ HoldsP7(call.file)
     /\ Len(call.file.asn1.certificates) >= 1)
    => LET pems == PemOf(call.file.asn1.certificates)
       IN /\ res.ok /\ IsNull(res.key)
          /\ res.cert = pems[1]
          /\ res.ca = IF Len(pems) >= 2 THEN Join(Tail(pems)) ELSE Null

\* C6: on a container that decodes but holds no certificate extractFromP7B
\* throws "No certificates found"; no result of extractFromP7B has a null
\* cert.
C6_NoCertificates ==
  call.op = "extractFromP7B" =>
    /\ (call.file.enc = "DER" /\ call.file.asn1.type = "PKCS7"
          /\ call.file.asn1.certificates = <<>>)
         => ~res.ok /\ res.message = MsgNoCerts
    /\ res.ok => ~IsNull(res.cert)

C6_Witness ==
  /\ call.op = "extractFromP7B"
  /\ call.file = DerFile(P7Asn1(<<>>))
  /\ ~res.ok /\ res.message = MsgNoCerts

\* the blocks of the CA bundle text that hold a certificate
GoodBlocks ==
  LET blocks == Split(BundleToks)
  IN {i \in 1..Len(blocks) : LET b == Trim(blocks[i])
                             IN b # <<>> /\ b[Len(b)] \in {"ca1", "ca2"}}

\* C7: with a valid key and a valid leaf createPFX succeeds whatever the CA
\* bundle text is; the container holds the leaf and one certificate for
\* each CA block that parses, and nothing for a block that does not.
C7_PartialTolerance ==
  (IsPlainKey(keyPem) /\ IsCert(certPem) /\ pfxOut # NotCalled) =>
    /\ pfxOut.ok
    /\ LET bags == pfxOut.file.asn1.safeContents[1].safeBags
           blocks == Split(BundleToks)
       IN /\ Len(bags) = 1 + Cardinality(GoodBlocks)
          /\ bags[1] = CertBag(certPem.x509)
          /\ \A j \in 2..Len(bags) :
               \E i \in GoodBlocks :
                 LET b == Trim(blocks[i])
                 IN bags[j] = CertBag(TokenCert(b[Len(b)]))

C7_Witness ==
  /\ IsPlainKey(keyPem) /\ IsCert(certPem)
  /\ caPem.label = "bundle" /\ caPem.toks = <<"ca1", "END", "bad">>
  /\ pfxOut.ok
  /\ pfxOut.file.asn1.safeContents[1].safeBags
       = <<CertBag(certPem.x509), CertBag(CA1)>>

\* C8: the leaf extractFromPFX returns from createPFX's output and the leaf
\* extractFromP7B returns from createP7B's output, for the same certificate
\* and CA bundle, are the same PEM text.
C8_SameLeaf ==
  [][ ( /\ call.op = "extractFromPFX" /\ FromCreatePFX /\ res.ok
        /\ call'.op = "extractFromP7B" /\ p7bOut.ok
        /\ call'.file = p7bOut.file )
      => (res'.ok /\ res'.cert = res.cert) ]_vars

Unsalted(r) ==
  IF ~r.ok THEN r
  ELSE IF "file" \in DOMAIN r /\ r.file.asn1.type = "PFX"
    THEN [r EXCEPT !.file.asn1.salt = "any"]
  ELSE IF "key" \in DOMAIN r /\ r.key.label = "ENCRYPTED PRIVATE KEY"
    THEN [r EXCEPT !.key.salt = "any"]
  ELSE r

UsesRandom(c) ==
  \/ c.op = "createPFX"
  \/ c.op = "extractFromPFX" /\ Truthy(c.outputKeyPassword)

C10_OneMessage ==
  (call.op = "createPFX" /\ ~res.ok) => res.message = MsgGeneratePfx

C10_Witness ==
  /\ call.op = "createPFX" /\ ~res.ok
  /\ IsPlainKey(keyPem) /\ ~IsCert(certPem)
  /\ res.message = MsgGeneratePfx

\* C11: whatever makes createP7B fail, it throws the same message: the one
\* it throws for a leaf text that holds no PEM block at all.
C11_OneMessage ==
  (call.op = "createP7B" /\ ~res.ok)
    => res.message = createP7B(Garbage, Null).message

\* the error the decoding of a file under a password ends with, if any
DecodeError(file, pw) ==
  LET d == fromDer(createBuffer(file))
  IN IF ~d.ok THEN Throw(d.message)
     ELSE LET p == pkcs12FromAsn1(d.asn1, pw)
          IN IF p.ok THEN [ok |-> TRUE, message |-> <<>>] ELSE Throw(p.message)

\* C12: a failure of extractFromPFX is "Invalid password or corrupted file."
\* when the decode error's message mentions the password and "Failed to
\* parse PFX: ..." otherwise; a decode error never comes with a result and
\* no other error is thrown.
C12_TwoErrors ==
  call.op = "extractFromPFX" =>
    LET u == DecodeError(call.file, call.password)
    IN /\ ~u.ok => ~res.ok
       /\ ~res.ok =>
            /\ ~u.ok
            /\ IF Includes(u.message, "password")
                 THEN res.message = MsgInvalidPassword
                 ELSE /\ SubSeq(res.message, 1, Len(MsgParsePfx)) = MsgParsePfx
                      /\ res.message # MsgInvalidPassword

C12_Witness ==
  /\ call.op = "extractFromPFX" /\ Protected(call.file) /\ call.file.asn1.mac
  /\ call.password # call.file.asn1.password
  /\ ~res.ok /\ res.message = MsgInvalidPassword

\* the safe bags of a PKCS#12 file in container order, and its certificates
RECURSIVE Flatten(_)
Flatten(safeContents) ==
  IF safeContents = <<>> THEN <<>>
  ELSE Head(safeContents).safeBags \o Flatten(Tail(safeContents))
IsCertBag(bag) == bag.type = "certBag"
IsKeyBag(bag) == bag.type \in {"keyBag", "pkcs8ShroudedKeyBag"}
CertsOfPfx(file) == SelectSeq(Flatten(file.asn1.safeContents), IsCertBag)
KeysOfPfx(file) == SelectSeq(Flatten(file.asn1.safeContents), IsKeyBag)

C15_UnencryptedFirst ==
  (call.op = "verifyCertKeyMatch" /\ IsCert(certPem)) =>
    LET pw == call.keyPassword
    IN /\ IsPlainKey(keyPem) =>
            /\ res.ok
            /\ res.match <=> certPem.x509.publicKey = keyPem.rsa
       /\ (~IsPlainKey(keyPem) /\ ~Truthy(pw)) =>
            ~res.ok /\ res.message = MsgKeyEncrypted
       /\ (~IsPlainKey(keyPem) /\ Truthy(pw)) =>
            /\ res.ok <=> (keyPem.label = "ENCRYPTED PRIVATE KEY"
                             /\ keyPem.pw = pw.s)
            /\ ~res.ok => res.message \in {MsgNoKey, MsgInvalidPem}

C15_Witness ==
  /\ call.op = "verifyCertKeyMatch" /\ IsCert(certPem)
  /\ keyPem = Garbage /\ call.keyPassword = NoPw
  /\ ~res.ok /\ res.message = MsgKeyEncrypted

\* C16: extractFromP7B throws the parse error only on a file that is neither
\* a DER nor a PEM encoding of a PKCS#7 container, and on the PEM encoding of
\* a container it gives what it gives on the DER encoding of that container.
C16_PemSameAsDer ==
  (call.op = "extractFromP7B" /\ HoldsP7(call.file)) =>
    /\ ~(~res.ok /\ res.message = MsgParseP7B)
    /\ call.file.enc = "PEM" => res = extractFromP7B(DerFile(call.file.asn1))

\* the certificates of the container of the last extraction, as PEM texts
FoundPems ==
  IF call.op = "extractFromPFX"
    THEN LET certs == CertsOfPfx(call.file)
         IN [i \in 1..Len(certs) |-> CertText(certs[i].x509, "crlf")]
    ELSE PemOf(call.file.asn1.certificates)

ValidCaAt(i) ==
  /\ BundleToks[i] \in {"ca1", "ca2"}
  /\ \E j \in (i + 1)..(Len(BundleToks) + 1) :
       /\ j = Len(BundleToks) + 1 \/ BundleToks[j] = "END"
       /\ \A k \in (i + 1)..(j - 1) : BundleToks[k] = "ws"
ValidCas ==
  LET at == SelectSeq([i \in 1..Len(BundleToks) |-> i], ValidCaAt)
  IN [j \in 1..Len(at) |-> TokenCert(BundleToks[at[j]])]

\* C18: the container createPFX returns holds the leaf and then the valid CA
\* certificates in bundle order; extractFromPFX on it with the same password
\* returns the input leaf as cert and the valid CA certificates as ca in
\* that order, and ca = null when the bundle is null, empty or without a
\* valid certificate.
C18_ChainOrder ==
  pfxOut.ok =>
    /\ CertsOfPfx(pfxOut.file)
         = <<CertBag(certPem.x509)>>
             \o [j \in 1..Len(ValidCas) |-> CertBag(ValidCas[j])]
    /\ (call.op = "extractFromPFX" /\ FromCreatePFX /\ call.password = password)
         => /\ res.ok
            /\ res.cert.x509 = certPem.x509
            /\ res.ca = IF ValidCas = <<>> THEN Null ELSE Join(PemOf(ValidCas))

C18_Witness ==
  /\ pfxOut.ok /\ caPem.label = "bundle"
  /\ caPem.toks = <<"ca2", "END", "ca1", "END">>
  /\ call.op = "extractFromPFX" /\ FromCreatePFX /\ res.ok
  /\ res.cert.x509 = certPem.x509
  /\ res.ca = Join(<<CertText(CA2, "crlf"), CertText(CA1, "crlf")>>)

\* C19: the container createP7B returns holds the leaf and then the valid CA
\* certificates in bundle order and nothing else, and extractFromP7B on it
\* returns the input leaf as cert and the valid CA certificates as ca.
C19_P7bRoundTrip ==
  p7bOut.ok =>
    /\ p7bOut.file.asn1 = P7Asn1(<<certPem.x509>> \o ValidCas)
    /\ (call.op = "extractFromP7B" /\ FromCreateP7B)
         => /\ res.ok /\ IsNull(res.key)
            /\ res.cert.x509 = certPem.x509
            /\ res.ca = IF ValidCas = <<>> THEN Null ELSE Join(PemOf(ValidCas))

\* the key and certificate material the codec panels hold: what was given
\* to their fields, what their handlers took along, and what they extracted
CodecPanels == {"PFXExtractor", "PFXGenerator", "MatchChecker"}

\* C20: every request that left the page was made by analyzeCertificate and
\* carries a text that was typed into the AI-analysis panel's own field;
\* nothing given to or computed by PFXExtractor, PFXGenerator or
\* MatchChecker is in it.
C20_OnlyAnalyzerText ==
  \A request \in network :
    /\ request.model = "gemini-3-pro-preview"
    /\ request.contents.from = "CertificateAnalyzer"
    /\ request.contents.from \notin CodecPanels
    /\ request.contents.text \in AnalyzerTexts \ {EmptyText, BlankText}

C20_Witness ==
  /\ [model |-> "gemini-3-pro-preview",
      contents |-> Typed("CertificateAnalyzer", CertText(LeafA, "lf"))]
       \in network
  /\ mode = "PFX_TO_PEM"
  /\ extractor.result.shown /\ ~IsNull(extractor.result.value.key)

\* ------------------------------------------------- the panels' handlers
\* the timers, the file read and the codec calls all finish, so a handler
\* waiting at its await goes on
AppLive ==
  /\ AppSpec
  /\ WF_vars(ConvertDone) /\ WF_vars(GenerateDone) /\ WF_vars(VerifyDone)

\* the panels' processing flags are cleared again
FlagsClear ==
  /\ extractor.isProcessing ~> ~extractor.isProcessing
  /\ generator.isProcessing ~> ~generator.isProcessing
  /\ checker.isVerifying ~> ~checker.isVerifying

\* the i-th waiting handler of the panel shown runs to its end in this step
Ends(panel, i) ==
  /\ i \in 1..Len(pending)
  /\ pending[i].panel = panel /\ pending[i].mounted
  /\ pending' = Remove(pending, i)

\* what a conversion of this file gives, for the passwords a user may type
ResultsOf(file) ==
  IF isP7B(ToLowerCase(file.name))
    THEN {extractFromP7B(file.bytes)}
    ELSE {extractFromPFX(file.bytes, pw, OrUndefined(opw), salt) :
            pw \in ExtractorPasswords, opw \in UiOutPasswords, salt \in Salts}

\* the result shown in PFXExtractor, if any, is one of the selected file
ResultIsOfFile ==
  extractor.result.shown =>
    /\ extractor.file # NoUiFile
    /\ extractor.result.value \in ResultsOf(extractor.file)

\* the outcome of the handler of a panel that ends in this step
ConvertOutcome ==
  /\ MaxPending = 1 => ~extractor'.isProcessing
  /\ extractor'.result.shown # extractor'.error.shown
GenerateOutcome ==
  /\ MaxPending = 1 => ~generator'.isProcessing
  /\ (downloads' # downloads) # generator'.error.shown
VerifyOutcome ==
  /\ MaxPending = 1 => ~checker'.isVerifying
  /\ (checker'.status \in {"match", "mismatch"})
       # (checker'.status = "error" /\ checker'.errorMsg.shown)

\* C21: when a started handleConvert, handleGenerate or handleVerify ends,
\* its processing flag was cleared and exactly one outcome is shown: the
\* codec's result (the extracted PEMs, the download, the verdict) or an
\* error. Only the runs are looked at during which no other error came up
\* and no result of another file was left on the page.
C21_OneOutcome ==
  [][\A i \in 1..MaxPending :
       /\ Ends("PFXExtractor", i) /\ ~extractor.error.shown /\ ResultIsOfFile
            => ConvertOutcome
       /\ Ends("PFXGenerator", i) /\ ~generator.error.shown => GenerateOutcome
       /\ Ends("MatchChecker", i) => VerifyOutcome]_vars

\* the file names and passwords handleConvert is to accept
ConvertExtensions == {".pfx", ".p12", ".p7b", ".p7c"}
HasExtension(file) ==
  \E ext \in ConvertExtensions : EndsWith(ToLowerCase(file.name), ext)
IsP7Name(file) ==
  \E ext \in {".p7b", ".p7c"} : EndsWith(ToLowerCase(file.name), ext)
Convertible ==
  /\ extractor.file # NoUiFile
  /\ HasExtension(extractor.file)
  /\ IsP7Name(extractor.file) \/ extractor.password # ""
\* the codec calls that handleConvert has started and that are still to run
ConvertCallsOk ==
  \A i \in 1..Len(pending) :
    pending[i].panel = "PFXExtractor" =>
      LET a == pending[i].args
          c == ConvertCall(a)
      IN /\ a.file # NoUiFile /\ HasExtension(a.file)
         /\ c.fileBuffer = a.file.bytes
         /\ c.op = "extractFromPFX" => ~IsP7Name(a.file) /\ c.password # ""
         /\ IsP7Name(a.file) =>
              c.op = "extractFromP7B" /\ DOMAIN c = {"op", "fileBuffer"}

\* C22: handleConvert calls the codec only for a selected file whose name
\* ends, in any case, in .pfx, .p12, .p7b or .p7c; extractFromPFX only with a
\* non-empty password; a .p7b or .p7c file goes to extractFromP7B, without a
\* password; a rejected click shows an error, starts nothing and leaves the
\* processing flag as it was.
C22_ConvertGuards ==
  [][/\ ConvertCallsOk'
     /\ HandleConvert /\ ~Convertible =>
          /\ extractor'.error.shown
          /\ extractor'.error.message \in
               {MsgSelectFile, MsgInvalidType, MsgEnterPassword}
          /\ extractor'.isProcessing = extractor.isProcessing
          /\ extractor'.result = extractor.result
          /\ pending' = pending
     /\ HandleConvert /\ Convertible =>
          /\ extractor'.isProcessing /\ ~extractor'.error.shown
          /\ Len(pending') = Len(pending) + 1]_vars

C22_Witness ==
  /\ extractor.password = "p1"
  /\ extractor.isProcessing
  /\ \E i \in 1..Len(pending) :
       /\ pending[i].panel = "PFXExtractor" /\ pending[i].mounted
       /\ pending[i].args.file.name = "CHAIN.P7B"
       /\ ConvertCall(pending[i].args).op = "extractFromP7B"

\* the codec calls that handleGenerate has started and that are still to run
GenerateCallsOk ==
  \A i \in 1..Len(pending) :
    pending[i].panel = "PFXGenerator" =>
      LET a == pending[i].args
          c == GenerateCall(a)
      IN /\ c.op = "createPFX" =>
              a.format = "pfx" /\ c.keyPem # EmptyText /\ c.certPem # EmptyText
         /\ c.op = "createP7B" =>
              /\ a.format = "p7b" /\ c.certPem # EmptyText
              /\ DOMAIN c = {"op", "certPem", "caPem"}
\* the codec call of the closure a returns
Generates(a) ==
  LET c == GenerateCall(a)
  IN IF c.op = "createPFX"
       THEN \E salt \in Salts :
              createPFX(c.keyPem, c.certPem, c.caPem, c.password,
                        c.friendlyName, salt).ok
       ELSE createP7B(c.certPem, c.caPem).ok
\* a handleGenerate whose codec call returns ends in this step
GenerationSucceeds ==
  \E i \in 1..Len(pending) :
    /\ pending[i].panel = "PFXGenerator"
    /\ pending' = Remove(pending, i)
    /\ Generates(pending[i].args)

\* C23: createPFX is called only with a non-empty key and certificate and
\* createP7B only with a non-empty certificate; in P7B format a click with an
\* empty key and password starts the generation, and neither is passed to
\* createP7B; one file is downloaded by each generation whose codec call
\* returned, and none by any other step (a rejected click, a codec error).
C23_GenerateGuards ==
  [][/\ GenerateCallsOk'
     /\ HandleGenerate /\ generator.format = "p7b"
          /\ generator.certPem.text # EmptyText =>
          Len(pending') = Len(pending) + 1 /\ ~generator'.error.shown
     /\ HandleGenerate /\ pending' = pending =>
          generator'.error.shown /\ generator'.isProcessing = generator.isProcessing
     /\ IF GenerationSucceeds
          THEN /\ Len(downloads') = Len(downloads) + 1
               /\ SubSeq(downloads', 1, Len(downloads)) = downloads
          ELSE downloads' = downloads]_vars

C23_Witness ==
  /\ mode = "PEM_TO_PFX"
  /\ generator.format = "p7b"
  /\ generator.keyPem.text = EmptyText /\ generator.password = ""
  /\ ~generator.error.shown /\ ~generator.isProcessing
  /\ downloads = <<DownloadText(<<"certificate", ".p7b">>)>>

\* what the codec call of handleVerify's closure a comes to
Verdict(a) ==
  LET c == VerifyCall(a)
      r == verifyCertKeyMatch(c.certPem, c.keyPem, c.keyPassword)
  IN IF ~r.ok THEN "error" ELSE IF r.match THEN "match" ELSE "mismatch"
\* a handleVerify of the panel shown ends in this step with this verdict
VerifyEndsWith(v) ==
  \E i \in 1..Len(pending) : Ends("MatchChecker", i) /\ Verdict(pending[i].args) = v

\* C24: status becomes match, mismatch or error only when a handleVerify
\* ends whose verifyCertKeyMatch returned true, returned false or threw;
\* with status error an error message is set; an edit of the certificate,
\* key or password (typed or uploaded) puts status back to idle; with an
\* empty certificate or key, handleVerify changes nothing.
C24_Status ==
  [][/\ \A v \in {"match", "mismatch", "error"} :
          checker'.status = v /\ checker.status # v => VerifyEndsWith(v)
     /\ checker'.status = "error" => checker'.errorMsg.shown
     /\ (CheckerSetCertPem \/ CheckerSetKeyPem \/ CheckerSetPassword)
          => checker'.status = "idle"
     /\ (checker.certPem.text = EmptyText \/ checker.keyPem.text = EmptyText)
          => ~HandleVerify /\ ~(checker'.isVerifying /\ ~checker.isVerifying)]_vars

C24_Witness ==
  /\ mode = "MATCH_CHECKER"
  /\ checker.status = "mismatch" /\ ~checker.isVerifying
  /\ checker.keyPem.text = EncKeyText(KB, "p1", "s1")
  /\ checker.password = "p1"
  /\ pending = <<>>

\* C25: the result shown in PFXExtractor was extracted from the file that is
\* selected now, also when the file was replaced while a conversion of the
\* earlier file was waiting for its delay or its file read.
C25_ResultOfSelectedFile ==
  \/ ~extractor.result.shown
  \/ /\ extractor.file \in UiFiles
     /\ extractor.result.value \in ResultsOf(extractor.file)

\* C26: a verdict shown in MatchChecker is the verdict for the certificate,
\* key and password that are in the fields now, also when a field was
\* edited during the delay of a running handleVerify.
C26_VerdictOfFields ==
  checker.status \in {"match", "mismatch"} =>
    checker.status =
      Verdict([certPem |-> checker.certPem, keyPem |-> checker.keyPem,
               password |-> checker.password])

\* the codec call of handleConvert's closure a throws
ConvertThrows(a) ==
  LET c == ConvertCall(a)
  IN IF c.op = "extractFromP7B"
       THEN ~extractFromP7B(c.fileBuffer).ok
       ELSE \A salt \in Salts :
              ~extractFromPFX(c.fileBuffer, c.password, c.outputKeyPassword,
                              salt).ok
\* a handleConvert fails in this step: its click is rejected, or its codec
\* call throws
ConvertFails ==
  \/ HandleConvert /\ pending' = pending
  \/ \E i \in 1..Len(pending) :
       Ends("PFXExtractor", i) /\ ConvertThrows(pending[i].args)

\* C27: after a handleConvert that failed, PFXExtractor shows the error and
\* no result, also when an earlier conversion of the same file succeeded
\* (a result of another file that was left on the page is not looked at).
C27_ErrorWithoutResult ==
  [][ConvertFails /\ ResultIsOfFile =>
       extractor'.error.shown /\ ~extractor'.result.shown]_vars

\* ------------------------------------------------- extractFromPFX, again
\* the closures handleConvert may take along for a .pfx file whose
\* output-password field is blank
BlankOutputClosures ==
  { [file |-> f, password |-> pw, outputPassword |-> ""] :
      f \in {g \in UiFiles : ~isP7B(g.name)}, pw \in ExtractorPasswords \ {""} }

\* C28: extractFromPFX called with the empty string as outputKeyPassword
\* returns what it returns without an outputKeyPassword, with the key as
\* plain PEM; and handleConvert passes a blank output-password field as
\* undefined.
C28_EmptyOutputPassword ==
  /\ (call.op = "extractFromPFX" /\ call.outputKeyPassword = Pw("")) =>
       /\ \A salt \in Salts :
            res = extractFromPFX(call.file, call.password, NoPw, salt)
       /\ res.ok /\ ~IsNull(res.key) =>
            IsPlainKey(res.key) /\ privateKeyFromPem(res.key).ok
  /\ \A a \in BlankOutputClosures :
       /\ ConvertCall(a).op = "extractFromPFX"
       /\ ConvertCall(a).outputKeyPassword = NoPw
       /\ ConvertCall(a).outputKeyPassword # Pw("")

C28_Witness ==
  /\ call.op = "extractFromPFX" /\ call.outputKeyPassword = Pw("")
  /\ res.ok
  /\ KeysOfPfx(call.file) = <<ShroudedKeyBag(KA)>>
  /\ res.key = privateKeyToPem(KA)

\* the key bags of a container whose key forge decoded, in container order
IsDecodedKeyBag(bag) == IsKeyBag(bag) /\ bag.decoded
DecodedKeysOfPfx(file) ==
  SelectSeq(Flatten(file.asn1.safeContents), IsDecodedKeyBag)
\* the key in a PEM that extractFromPFX returned under outputKeyPassword
KeyIn(pem, outputKeyPassword) ==
  IF pem.label = "ENCRYPTED PRIVATE KEY"
    THEN decryptRsaPrivateKey(pem, outputKeyPassword.s).rsa
    ELSE privateKeyFromPem(pem).rsa

\* C29: extractFromPFX returns at most one private key: with several key or
\* shrouded key bags it is the key of the last one, in container order,
\* whose key was decoded; the earlier keys are dropped without an error; a
\* key bag without a decoded key changes nothing.
C29_LastKey ==
  call.op = "extractFromPFX" =>
    LET keys == DecodedKeysOfPfx(call.file)
    IN /\ res.ok <=> call.password = "p1"
       /\ res.ok =>
            IF keys = <<>> THEN IsNull(res.key)
            ELSE /\ res.key.label \in
                      {"RSA PRIVATE KEY", "PRIVATE KEY", "ENCRYPTED PRIVATE KEY"}
                 /\ KeyIn(res.key, call.outputKeyPassword) = keys[Len(keys)].rsa

C29_Witness ==
  /\ call.op = "extractFromPFX" /\ res.ok
  /\ KeysOfPfx(call.file) =
       <<ShroudedKeyBag(KA), KeyBag(KB), UndecodedKeyBag("keyBag")>>
  /\ res.key = privateKeyToPem(KB)

\* C30: on a container that decodes under the password and holds no key bag
\* and no certificate bag extractFromPFX returns key, cert and ca all null
\* and throws nothing (extractFromP7B throws for a container without
\* certificates); on one with certificates and no key bag it returns them
\* with a null key.
C30_NothingFound ==
  /\ (call.op = "extractFromPFX" /\ DecodeError(call.file, call.password).ok
        /\ KeysOfPfx(call.file) = <<>>) =>
       /\ res.ok /\ IsNull(res.key)
       /\ CertsOfPfx(call.file) = <<>> => res = Parsed(Null, Null, Null)
       /\ CertsOfPfx(call.file) # <<>> => ~IsNull(res.cert)
  /\ (call.op = "extractFromP7B" /\ call.file.enc = "DER"
        /\ call.file.asn1.type = "PKCS7" /\ call.file.asn1.certificates = <<>>)
       => ~res.ok /\ res.message = MsgNoCerts

C30_Witness ==
  /\ call.op = "extractFromPFX"
  /\ call.file.asn1.type = "PFX"
  /\ Flatten(call.file.asn1.safeContents) = <<>>
  /\ call.file.asn1.mac /\ call.password = "p1"
  /\ res = Parsed(Null, Null, Null)
====
